---- MODULE Spec2Model ----
(***************************************************************************)
(* python_digest: HTTP Digest authentication helpers                       *)
(* (src/python_digest/__init__.py).                                        *)
(*                                                                         *)
(* Representation.                                                         *)
(*   - A Python text string is a sequence of characters; a character is a  *)
(*     one-character TLA+ string ("a", ":", ...).                          *)
(*   - The hex digest of a hash is ONE further "character", the token      *)
(*     "<name|data>" holding the hash's name and the hashed text.  Two      *)
(*     digests are equal exactly when name and text are equal: the hash is *)
(*     treated as injective.  The token is none of the characters the code *)
(*     looks for (colon, comma, quote, backslash, space, hex digits).      *)
(*   - Python's None is the one-element sequence None below, different     *)
(*     from every text.                                                    *)
(*   - A Python int used as nonce count is arbitrary precision; here it is *)
(*     the text of its lowercase hexadecimal digits, most significant      *)
(*     first, without leading zeros.  Zero is the empty text.              *)
(*   - An argument that may be of several Python types carries its type:   *)
(*     NoneV, Text(s), Float(t), Rec(r).                                   *)
(*   - A call either returns or raises, Raise.  What it returns carries    *)
(*     its type: Ok(text), Func(f), Bool(b), NoneV, Rec(r).                *)
(***************************************************************************)
EXTENDS Integers, Sequences, FiniteSets, TLC

VARIABLES
    algorithms_available,   \* hashlib.algorithms_available has 'sha512_256'
    AVAILABLE_HASH_FUNCS,   \* the module-level list _AVAILABLE_HASH_FUNCS
    pc,                     \* "idle": no call in progress; "done": a call has returned or raised
    op,                     \* the function called last
    args,                   \* its arguments
    ret                     \* its outcome: the value returned, or Raise

vars == <<algorithms_available, AVAILABLE_HASH_FUNCS, pc, op, args, ret>>

----------------------------------------------------------------------------
(* Python values *)

None == <<"None">>

\* A value with its type, or an outcome with its kind, is the pair <<kind, value>>.
Kind(x) == x[1]
Val(x) == x[2]

Ok(v) == <<"ok", v>>
Raise == <<"raise", None>>

\* a returned hash function (by name), a returned bool
Func(f) == <<"func", f>>
Bool(b) == <<"bool", b>>

NoneV == <<"none", None>>
Rec(r) == <<"record", r>>

\* Python truthiness of a text, an int (digit sequence) or None:
\* None, '' and 0 are false.
Truthy(x) == x # None /\ x # <<>>

RECURSIVE Join(_)
\* The characters of s run together into one TLA+ string.
Join(s) == IF Len(s) = 0 THEN ""
           ELSE IF Len(s) = 1 THEN s[1]
           ELSE Join(SubSeq(s, 1, Len(s) \div 2)) \o Join(SubSeq(s, (Len(s) \div 2) + 1, Len(s)))

RECURSIVE Concat(_)
\* The texts of the sequence ss, concatenated.
Concat(ss) == IF ss = <<>> THEN <<>> ELSE Head(ss) \o Concat(Tail(ss))

Colon == <<":">>

----------------------------------------------------------------------------
(* Bounds *)

\* random.choice draws from the first NumRandomChars characters of '0123456789ABCDEF'
NumRandomChars == 2
\* timestamps are 0.0, 0.1, ... MaxTimestamp tenths of a second
MaxTimestamp == 11

----------------------------------------------------------------------------
(* Text helpers: what the Python string operations used by the code do *)

HexUpper == <<"0","1","2","3","4","5","6","7","8","9","A","B","C","D","E","F">>
HexLower == <<"0","1","2","3","4","5","6","7","8","9","a","b","c","d","e","f">>
UpperLetters == <<"A","B","C","D","E","F","G","H","I","J","K","L","M",
                  "N","O","P","Q","R","S","T","U","V","W","X","Y","Z">>
LowerLetters == <<"a","b","c","d","e","f","g","h","i","j","k","l","m",
                  "n","o","p","q","r","s","t","u","v","w","x","y","z">>

\* The position of character c in the sequence s, 0 when it is not there.
IndexOf(c, s) == IF \E i \in 1..Len(s) : s[i] = c
                 THEN CHOOSE i \in 1..Len(s) : s[i] = c /\ \A j \in 1..(i-1) : s[j] # c
                 ELSE 0

\* str.lower()
LowerChar(c) == IF IndexOf(c, UpperLetters) > 0 THEN LowerLetters[IndexOf(c, UpperLetters)] ELSE c
Lower(s) == [i \in 1..Len(s) |-> LowerChar(s[i])]

\* s[:n]
Prefix(s, n) == SubSeq(s, 1, IF Len(s) < n THEN Len(s) ELSE n)
\* s[n:]
Suffix(s, n) == SubSeq(s, n + 1, Len(s))

RECURSIVE Split(_, _, _)
\* s.split(sep, maxsplit) for a one-character sep
Split(s, sep, maxsplit) ==
    LET i == IndexOf(sep, s)
    IN IF maxsplit = 0 \/ i = 0 THEN <<s>>
       ELSE <<SubSeq(s, 1, i - 1)>> \o Split(Suffix(s, i), sep, maxsplit - 1)

RECURSIVE DecStr(_)
\* the decimal digits of the natural number n
DecStr(n) == IF n < 10 THEN <<HexUpper[n + 1]>>
             ELSE DecStr(n \div 10) \o <<HexUpper[(n % 10) + 1]>>

\* A timestamp is a Python float, here a number of tenths of a second, or (inside
\* validate_nonce) the text cut out of a nonce.
Float(t) == <<"float", t>>
Text(s) == <<"str", s>>

\* "%s" % x: a text is itself, a float is its shortest decimal form (1.5, 12.0)
FormatS(x) == IF Kind(x) = "str" THEN Val(x)
              ELSE DecStr(Val(x) \div 10) \o <<".">> \o DecStr(Val(x) % 10)

----------------------------------------------------------------------------
(* Hashing *)

\* h.hexdigest() of the hash called name over the text data
HexDigest(name, data) == <<"<" \o name \o "|" \o Join(data) \o ">">>

S_MD5 == <<"M","D","5">>
S_SHA256 == <<"S","H","A","-","2","5","6">>
S_SHA512 == <<"S","H","A","-","5","1","2">>
S_SHA512_256 == <<"S","H","A","-","5","1","2","-","2","5","6">>
S_SHA1 == <<"S","H","A","-","1">>

\* _AVAILABLE_HASH_FUNCS after import on a host whose hashlib provider has
\* (has = TRUE) or lacks sha512_256
AvailableHashFuncs(has) ==
    {S_MD5, S_SHA256, S_SHA512} \cup (IF has THEN {S_SHA512_256} ELSE {})

\* The function get_hash_func returns, by name.
get_hash_func(algorithm) ==
    IF algorithm = S_SHA256 THEN "sha256"
    ELSE IF algorithm = S_SHA512_256 THEN "hash_wrapper"
    ELSE IF algorithm = S_SHA512 THEN "sha512"
    ELSE "md5"

\* hash_func(data).hexdigest(): hash_wrapper calls hashlib.new('sha512_256'),
\* which raises ValueError where the provider lacks the primitive.
CallHash(hash_func, data) ==
    IF hash_func = "hash_wrapper"
    THEN IF algorithms_available THEN Ok(HexDigest("sha512_256", data)) ELSE Raise
    ELSE Ok(HexDigest(hash_func, data))

----------------------------------------------------------------------------
(* Nonces *)

SaltLen == 4
ClientNonceLen == 32

RandomChars == {HexUpper[i] : i \in 1..NumRandomChars}
\* The outcomes of ''.join([random.choice('0123456789ABCDEF') for x in range(n)])
\* that are enumerated: the tokens of period two over RandomChars.
RandomTokens(n) == {[i \in 1..n |-> IF i % 2 = 1 THEN a ELSE b] : a, b \in RandomChars}

\* calculate_nonce drawing a salt even when one is supplied
calculate_nonce_AlwaysDraws(timestamp, secret, salt, drawn) ==
    Concat(<<FormatS(timestamp), Colon, drawn, Colon,
             HexDigest("md5", Concat(<<FormatS(timestamp), Colon, drawn, Colon, secret>>))>>)

\* calculate_nonce signing the timestamp and the salt without the secret
calculate_nonce_NoSecret(timestamp, secret, salt, drawn) ==
    Concat(<<FormatS(timestamp), Colon, IF ~Truthy(salt) THEN drawn ELSE salt, Colon,
             HexDigest("md5", Concat(<<FormatS(timestamp), Colon,
                                       IF ~Truthy(salt) THEN drawn ELSE salt>>))>>)

\* calculate_nonce(timestamp, secret, salt); drawn is the random salt used
\* when salt is None or ''.
calculate_nonce(timestamp, secret, salt, drawn) ==
    LET s == IF ~Truthy(salt) THEN drawn ELSE salt
        ts == FormatS(timestamp)
    IN Concat(<<ts, Colon, s, Colon,
                HexDigest("md5", Concat(<<ts, Colon, s, Colon, secret>>))>>)

\* validate_nonce(nonce, secret); drawn is the random salt calculate_nonce
\* draws when the salt cut out of the nonce is ''.
validate_nonce(nonce, secret, drawn) ==
    LET nonce_components == Split(nonce, ":", 2)
    IN IF Len(nonce_components) # 3 THEN FALSE
       ELSE LET timestamp == nonce_components[1]
                salt == nonce_components[2]
                calculated_nonce == calculate_nonce(Text(timestamp), secret, salt, drawn)
            IN nonce = calculated_nonce

----------------------------------------------------------------------------
(* python_digest.utils: parse_parts and format_parts.  The header grammar   *)
(* codec, as section 4.1 of the specification describes it.                *)

K_username == <<"u","s","e","r","n","a","m","e">>
K_realm == <<"r","e","a","l","m">>
K_nonce == <<"n","o","n","c","e">>
K_uri == <<"u","r","i">>
K_response == <<"r","e","s","p","o","n","s","e">>
K_algorithm == <<"a","l","g","o","r","i","t","h","m">>
K_opaque == <<"o","p","a","q","u","e">>
K_qop == <<"q","o","p">>
K_nc == <<"n","c">>
K_cnonce == <<"c","n","o","n","c","e">>
K_stale == <<"s","t","a","l","e">>

S_auth == <<"a","u","t","h">>
S_true == <<"t","r","u","e">>
S_false == <<"f","a","l","s","e">>

Quote == "\""
Backslash == "\\"

\* The parameters format_parts writes as bare tokens; every other one is a
\* quoted-string.
BareKeys == {K_algorithm, K_qop, K_nc, K_stale}

\* The k-th smallest member of the set of numbers S.
Nth(S, k) == CHOOSE i \in S : Cardinality({j \in S : j <= i}) = k

\* The characters of v at the positions in keep, in order.
Pick(v, keep) == [k \in 1..Cardinality(keep) |-> v[Nth(keep, k)]]

EscapeChar(c) == IF c = Quote \/ c = Backslash THEN <<Backslash, c>> ELSE <<c>>

RECURSIVE Escape(_)
\* the text with each backslash and each double quote preceded by a backslash
Escape(v) ==
    IF Len(v) = 0 THEN <<>>
    ELSE IF Len(v) = 1 THEN EscapeChar(v[1])
    ELSE Escape(SubSeq(v, 1, Len(v) \div 2)) \o Escape(SubSeq(v, (Len(v) \div 2) + 1, Len(v)))

\* The character at position i of s is escaped: an odd number of backslashes
\* comes right before it (a backslash escapes the character after it).
Escaped(s, i) ==
    LET j == CHOOSE j \in 0..(i - 1) : /\ (j = 0 \/ s[j] # Backslash)
                                        /\ \A k \in (j + 1)..(i - 1) : s[k] = Backslash
    IN (i - 1 - j) % 2 = 1

\* the positions of the double quotes of s that open or close a quoted-string
QuoteMarks(s) == {i \in 1..Len(s) : s[i] = Quote /\ ~Escaped(s, i)}

\* the text of the inside of a quoted-string: each escaping backslash dropped
Unescape(v) == Pick(v, {i \in 1..Len(v) : ~(v[i] = Backslash /\ ~Escaped(v, i))})

\* the inside of a quoted-string: no bare double quote, no escaping backslash
\* at the end
QuotedInsideOk(v) ==
    /\ QuoteMarks(v) = {}
    /\ v # <<>> => ~(v[Len(v)] = Backslash /\ ~Escaped(v, Len(v)))

FormatPart(part) ==
    IF part[1] \in BareKeys THEN part[1] \o <<"=">> \o part[2]
    ELSE part[1] \o <<"=", Quote>> \o Escape(part[2]) \o <<Quote>>

RECURSIVE format_parts(_)
\* format_parts(**kwargs): kwargs is the sequence of <<name, value>> pairs
format_parts(kwargs) ==
    IF kwargs = <<>> THEN <<>>
    ELSE IF Len(kwargs) = 1 THEN FormatPart(kwargs[1])
    ELSE FormatPart(kwargs[1]) \o <<",", " ">> \o format_parts(Tail(kwargs))

\* every quoted-string of s is closed
QuotesClosed(s) == Cardinality(QuoteMarks(s)) % 2 = 0

\* s cut at the commas outside quoted-strings
Segments(s) ==
    LET marks == QuoteMarks(s)
        cuts == {i \in 1..Len(s) : /\ s[i] = ","
                                   /\ ~Escaped(s, i)
                                   /\ Cardinality({j \in marks : j < i}) % 2 = 0}
        from(k) == IF k = 1 THEN 1 ELSE Nth(cuts, k - 1) + 1
        to(k) == IF k = Cardinality(cuts) + 1 THEN Len(s) ELSE Nth(cuts, k) - 1
    IN [k \in 1..(Cardinality(cuts) + 1) |-> SubSeq(s, from(k), to(k))]

RECURSIVE Trim(_)
\* s.strip()
Trim(s) == IF s = <<>> THEN s
           ELSE IF Head(s) = " " THEN Trim(Tail(s))
           ELSE IF s[Len(s)] = " " THEN Trim(SubSeq(s, 1, Len(s) - 1))
           ELSE s

IsToken(t) == t # <<>> /\ \A i \in 1..Len(t) : t[i] \notin {" ", Quote, ",", "=", Backslash}

SegKey(seg) == Trim(SubSeq(seg, 1, IndexOf("=", seg) - 1))
SegRaw(seg) == Trim(Suffix(seg, IndexOf("=", seg)))
SegQuoted(seg) == SegRaw(seg) # <<>> /\ Head(SegRaw(seg)) = Quote

\* token "=" ( token | quoted-string )
SegmentOk(seg) ==
    /\ IndexOf("=", seg) > 0
    /\ IsToken(SegKey(seg))
    /\ LET raw == SegRaw(seg)
       IN IF SegQuoted(seg)
          THEN Len(raw) >= 2 /\ raw[Len(raw)] = Quote
               /\ QuotedInsideOk(SubSeq(raw, 2, Len(raw) - 1))
          ELSE IsToken(raw)

SegValue(seg) ==
    LET raw == SegRaw(seg)
    IN IF SegQuoted(seg) THEN Unescape(SubSeq(raw, 2, Len(raw) - 1)) ELSE raw

\* parse_parts(parts_string, defaults): the mapping from names to values,
\* the defaults under the parsed values, or None when a segment does not parse
parse_parts(parts_string, defaults) ==
    IF ~QuotesClosed(parts_string) THEN None
    ELSE LET segs == Segments(parts_string)
         IN IF \E i \in 1..Len(segs) : ~SegmentOk(segs[i]) THEN None
            ELSE LET keys == {SegKey(segs[i]) : i \in 1..Len(segs)}
                     last(k) == CHOOSE i \in 1..Len(segs) :
                                  /\ SegKey(segs[i]) = k
                                  /\ \A j \in (i+1)..Len(segs) : SegKey(segs[j]) # k
                 IN [k \in keys \cup DOMAIN defaults |->
                        IF k \in keys THEN SegValue(segs[last(k)]) ELSE defaults[k]]

----------------------------------------------------------------------------
(* Digests *)

HexWidth == 8

RECURSIVE Zeros(_)
Zeros(n) == IF n <= 0 THEN <<>> ELSE <<"0">> \o Zeros(n - 1)

\* "%x" % n: the padding left out
Format08x_NoPad(n) == IF n = <<>> THEN <<"0">> ELSE n

\* "%08x" % n for an int n >= 0: its lowercase hex digits, zero-padded on the
\* left to a width of at least 8
Format08x(n) ==
    LET digits == IF n = <<>> THEN <<"0">> ELSE n
    IN Zeros(HexWidth - Len(digits)) \o digits

RECURSIVE StripZeros(_)
StripZeros(s) == IF s # <<>> /\ Head(s) = "0" THEN StripZeros(Tail(s)) ELSE s

\* int(s, 16) for a non-empty text s of hex digits of either case
IntHex(s) == StripZeros(Lower(s))

\* calculate_partial_digest(username, realm, password, algorithm)
calculate_partial_digest(username, realm, password, algorithm) ==
    LET hash_func == get_hash_func(algorithm)
    IN CallHash(hash_func, Concat(<<username, Colon, realm, Colon, password>>))

\* lines 116-118 of calculate_request_digest: kd from ha2, which may have raised
Kd(hash_func, partial_digest, nonce, nonce_count, client_nonce, ha2) ==
    IF Kind(ha2) = "raise" THEN Raise
    ELSE CallHash(hash_func,
             Concat(<<partial_digest, Colon, nonce, Colon, Format08x(nonce_count), Colon,
                      client_nonce, Colon, S_auth, Colon, Val(ha2)>>))

\* lines 114-118 of calculate_request_digest
DigestWith(hash_func, method, partial_digest, uri, nonce, nonce_count, client_nonce) ==
    Kd(hash_func, partial_digest, nonce, nonce_count, client_nonce,
       CallHash(hash_func, Concat(<<method, Colon, uri>>)))

\* lines 112-118 of calculate_request_digest: the digest itself
RequestDigest(method, partial_digest, uri, nonce, nonce_count, client_nonce, algorithm) ==
    DigestWith(get_hash_func(IF Truthy(algorithm) THEN algorithm ELSE S_MD5),
               method, partial_digest, uri, nonce, nonce_count, client_nonce)

\* calculate_request_digest(method, partial_digest, digest_response, uri, nonce,
\*                          nonce_count, client_nonce, algorithm)
calculate_request_digest(method, partial_digest, digest_response, uri, nonce, nonce_count, client_nonce, algorithm) ==
    IF Kind(digest_response) = "record"
    THEN IF Truthy(uri) \/ Truthy(nonce) \/ Truthy(nonce_count) \/ Truthy(client_nonce)
            \/ Truthy(algorithm)
         THEN Raise
         ELSE RequestDigest(method, partial_digest, Val(digest_response).uri,
                            Val(digest_response).nonce, Val(digest_response).nc,
                            Val(digest_response).cnonce, Val(digest_response).algorithm)
    ELSE IF ~(Truthy(uri) /\ Truthy(nonce) /\ nonce_count # None /\ Truthy(client_nonce))
         THEN Raise
         ELSE RequestDigest(method, partial_digest, uri, nonce, nonce_count, client_nonce,
                            algorithm)

----------------------------------------------------------------------------
(* Parsing headers *)

REQUIRED_DIGEST_RESPONSE_PARTS ==
    <<K_username, K_realm, K_nonce, K_uri, K_response, K_algorithm, K_opaque, K_qop, K_nc,
      K_cnonce>>
REQUIRED_DIGEST_CHALLENGE_PARTS ==
    <<K_realm, K_nonce, K_stale, K_algorithm, K_opaque, K_qop>>

S_DigestSP == <<"d","i","g","e","s","t"," ">>
S_Digest == <<"D","i","g","e","s","t"," ">>
SchemeLen == 7

check_required_parts(parts, required_parts) ==
    IF parts = None THEN FALSE
    ELSE LET missing_parts == {i \in 1..Len(required_parts) : required_parts[i] \notin DOMAIN parts}
         IN Cardinality(missing_parts) = 0

IsHexDigit(c) == IndexOf(c, HexLower) > 0 \/ IndexOf(c, HexUpper) > 0

\* the checks of parse_digest_response without the one on the algorithm
CheckedResponse_NoAlgorithmCheck(digest_response) ==
    IF S_auth # digest_response.qop THEN NoneV ELSE Rec(digest_response)

\* lines 232-237 of parse_digest_response: the checks on the record
CheckedResponse(digest_response) ==
    IF digest_response.algorithm \notin AVAILABLE_HASH_FUNCS THEN NoneV
    ELSE IF S_auth # digest_response.qop THEN NoneV
    ELSE Rec(digest_response)

\* lines 221-237 of parse_digest_response, from the parsed parts on
ResponseOfParts(parts) ==
    IF ~check_required_parts(parts, REQUIRED_DIGEST_RESPONSE_PARTS) THEN NoneV
    ELSE IF ~Truthy(parts[K_nc]) \/ \E i \in 1..Len(parts[K_nc]) : ~IsHexDigit(parts[K_nc][i])
    THEN NoneV
    ELSE CheckedResponse(
             [username |-> parts[K_username], realm |-> parts[K_realm],
              nonce |-> parts[K_nonce], uri |-> parts[K_uri],
              response |-> parts[K_response], algorithm |-> parts[K_algorithm],
              opaque |-> parts[K_opaque], qop |-> parts[K_qop],
              nc |-> IntHex(parts[K_nc]), cnonce |-> parts[K_cnonce]])

\* parse_digest_response(digest_response_string): NoneV or Rec(DigestResponse)
parse_digest_response(digest_response_string) ==
    ResponseOfParts(parse_parts(digest_response_string, K_algorithm :> S_MD5))

is_digest_credential(authorization_header) ==
    Lower(Prefix(authorization_header, SchemeLen)) = S_DigestSP

\* parse_digest_credentials(authorization_header): NoneV or Rec(DigestResponse)
parse_digest_credentials(authorization_header) ==
    IF ~is_digest_credential(authorization_header) THEN NoneV
    ELSE parse_digest_response(Suffix(authorization_header, SchemeLen))

is_digest_challenge(authentication_header) ==
    Lower(Prefix(authentication_header, SchemeLen)) = S_DigestSP

\* lines 282-287 of parse_digest_challenge: the checks on the record
CheckedChallenge(digest_challenge) ==
    IF digest_challenge.algorithm \notin AVAILABLE_HASH_FUNCS THEN NoneV
    ELSE IF S_auth # digest_challenge.qop THEN NoneV
    ELSE Rec(digest_challenge)

\* parse_digest_challenge without the check of the required parts' presence:
\* a part left out reads as ''
ChallengeOfParts_NoRequiredCheck(parts) ==
    IF parts = None THEN NoneV
    ELSE CheckedChallenge(
             [realm |-> IF K_realm \in DOMAIN parts THEN parts[K_realm] ELSE <<>>,
              nonce |-> IF K_nonce \in DOMAIN parts THEN parts[K_nonce] ELSE <<>>,
              stale |-> (Lower(parts[K_stale]) = S_true),
              algorithm |-> parts[K_algorithm],
              opaque |-> IF K_opaque \in DOMAIN parts THEN parts[K_opaque] ELSE <<>>,
              qop |-> IF K_qop \in DOMAIN parts THEN parts[K_qop] ELSE <<>>])

\* lines 273-287 of parse_digest_challenge, from the parsed parts on
ChallengeOfParts(parts) ==
    IF ~check_required_parts(parts, REQUIRED_DIGEST_CHALLENGE_PARTS) THEN NoneV
    ELSE CheckedChallenge(
             [realm |-> parts[K_realm], nonce |-> parts[K_nonce],
              stale |-> (Lower(parts[K_stale]) = S_true),
              algorithm |-> parts[K_algorithm], opaque |-> parts[K_opaque],
              qop |-> parts[K_qop]])

\* parse_digest_challenge(authentication_header): NoneV or Rec(DigestChallenge)
parse_digest_challenge(authentication_header) ==
    IF ~is_digest_challenge(authentication_header) THEN NoneV
    ELSE ChallengeOfParts(parse_parts(Suffix(authentication_header, SchemeLen),
                                      (K_algorithm :> S_MD5) @@ (K_stale :> S_false)))

----------------------------------------------------------------------------
(* Building headers *)

\* build_digest_challenge writing stale=false whatever stale is
build_digest_challenge_StaleFalse(timestamp, secret, realm, opaque, stale, algorithm, drawn) ==
    S_Digest \o format_parts(<< <<K_realm, realm>>, <<K_qop, S_auth>>,
                                <<K_nonce, calculate_nonce(timestamp, secret, None, drawn)>>,
                                <<K_opaque, opaque>>, <<K_algorithm, algorithm>>,
                                <<K_stale, S_false>> >>)

\* build_digest_challenge(timestamp, secret, realm, opaque, stale, algorithm);
\* drawn is the salt calculate_nonce draws
build_digest_challenge(timestamp, secret, realm, opaque, stale, algorithm, drawn) ==
    LET nonce == calculate_nonce(timestamp, secret, None, drawn)
    IN S_Digest \o format_parts(<< <<K_realm, realm>>, <<K_qop, S_auth>>, <<K_nonce, nonce>>,
                                   <<K_opaque, opaque>>, <<K_algorithm, algorithm>>,
                                   <<K_stale, IF stale THEN S_true ELSE S_false>> >>)

\* lines 200-202 of build_authorization_request: the header, once the request
\* digest is there or has raised
AuthorizationHeader(username, uri, nonce_count, realm, nonce, opaque, request_digest, client_nonce, algorithm) ==
    IF Kind(request_digest) = "raise" THEN Raise
    ELSE Ok(S_Digest \o format_parts(<<
             <<K_username, username>>, <<K_realm, realm>>, <<K_nonce, nonce>>,
             <<K_uri, uri>>, <<K_response, Val(request_digest)>>,
             <<K_algorithm, algorithm>>, <<K_opaque, opaque>>, <<K_qop, S_auth>>,
             <<K_nc, Format08x(nonce_count)>>, <<K_cnonce, client_nonce>> >>))

\* the request digest computed with nonce and client nonce exchanged
DigestOfPartial_SwapsNonces(method, partial_digest, uri, nonce, nonce_count, client_nonce, algorithm) ==
    IF Kind(partial_digest) = "raise" THEN Raise
    ELSE calculate_request_digest(method, Val(partial_digest), NoneV, uri, client_nonce,
                                  nonce_count, nonce, algorithm)

\* lines 194-198 of build_authorization_request: the request digest from the
\* partial digest, which may have raised
DigestOfPartial(method, partial_digest, uri, nonce, nonce_count, client_nonce, algorithm) ==
    IF Kind(partial_digest) = "raise" THEN Raise
    ELSE calculate_request_digest(method, Val(partial_digest), NoneV, uri, nonce,
                                  nonce_count, client_nonce, algorithm)

\* lines 188-202 of build_authorization_request, once realm, nonce, opaque and
\* algorithm are settled
AuthorizationRequest(username, method, uri, nonce_count, realm, nonce, opaque, password, request_digest, client_nonce, algorithm) ==
    IF Truthy(password) /\ Truthy(request_digest) THEN Raise
    ELSE IF ~Truthy(request_digest) /\ ~Truthy(password) THEN Raise
    ELSE AuthorizationHeader(username, uri, nonce_count, realm, nonce, opaque,
             IF Truthy(request_digest) THEN Ok(request_digest)
             ELSE DigestOfPartial(method,
                      calculate_partial_digest(username, realm, password, algorithm),
                      uri, nonce, nonce_count, client_nonce, algorithm),
             client_nonce, algorithm)

\* algorithm or 'MD5'
OrMD5(algorithm) == IF Truthy(algorithm) THEN algorithm ELSE S_MD5

\* lines 177-202 of build_authorization_request with a digest_challenge:
\* challenge is the record given, or what parse_digest_challenge made of the text
WithChallenge(username, method, uri, nonce_count, challenge, password, request_digest, client_nonce) ==
    IF Kind(challenge) = "none" THEN Raise
    ELSE AuthorizationRequest(username, method, uri, nonce_count, Val(challenge).realm,
                              Val(challenge).nonce, Val(challenge).opaque, password,
                              request_digest, client_nonce, OrMD5(Val(challenge).algorithm))

\* if digest_challenge: a record, or a text that is not ''
IsGiven(digest_challenge) ==
    Kind(digest_challenge) = "record"
    \/ (Kind(digest_challenge) = "str" /\ Truthy(Val(digest_challenge)))

\* lines 167-202 of build_authorization_request, the client nonce settled
WithClientNonce(username, method, uri, nonce_count, digest_challenge, realm, nonce, opaque, password, request_digest, client_nonce, algorithm) ==
    IF IsGiven(digest_challenge)
       /\ (Truthy(realm) \/ Truthy(nonce) \/ Truthy(opaque) \/ Truthy(algorithm))
    THEN Raise
    ELSE IF IsGiven(digest_challenge)
    THEN WithChallenge(username, method, uri, nonce_count,
                       IF Kind(digest_challenge) = "str"
                       THEN parse_digest_challenge(Val(digest_challenge))
                       ELSE digest_challenge,
                       password, request_digest, client_nonce)
    ELSE IF ~(Truthy(realm) /\ Truthy(nonce) /\ Truthy(opaque)) THEN Raise
    ELSE AuthorizationRequest(username, method, uri, nonce_count, realm, nonce, opaque,
                              password, request_digest, client_nonce, OrMD5(algorithm))

\* build_authorization_request(username, method, uri, nonce_count, digest_challenge,
\*     realm, nonce, opaque, password, request_digest, client_nonce, algorithm);
\* digest_challenge is NoneV, Text(header) or Rec(DigestChallenge); drawn is the
\* client nonce drawn when client_nonce is None or ''
build_authorization_request(username, method, uri, nonce_count, digest_challenge, realm, nonce, opaque, password, request_digest, client_nonce, algorithm, drawn) ==
    WithClientNonce(username, method, uri, nonce_count, digest_challenge, realm, nonce,
                    opaque, password, request_digest,
                    IF ~Truthy(client_nonce) THEN drawn ELSE client_nonce, algorithm)

----------------------------------------------------------------------------
(* The values the calls are made with *)

T_s == <<"s">>
T_t == <<"t">>
T_ab == <<"a", ":", "b">>
T_u == <<"u">>
T_r == <<"r">>
T_n == <<"n">>
T_o == <<"o">>
T_p == <<"p">>
T_c == <<"c">>
T_d == <<"d">>
T_x == <<"x">>
T_GET == <<"G","E","T">>
T_slash == <<"/">>
\* a text with a double quote, a backslash, a comma and spaces in it
T_odd == <<" ", "a", Quote, "b", Backslash, ",", " ", "c", "=">>

Secrets == {T_s, T_t, T_ab, <<>>}
Timestamps == {Float(t) : t \in 0..MaxTimestamp}
Salts == RandomTokens(SaltLen)
\* The random draws a call is tried with: all of them when the call draws,
\* one (which it never reads) when it does not.
Draws(tokens, draws) == IF draws THEN tokens ELSE {CHOOSE t \in tokens : TRUE}
Algorithms == {None, S_MD5, S_SHA256, S_SHA512, S_SHA512_256, S_SHA1}

\* nonce counts 0, 1, 255, 2^32 - 1 and 2^32
N_0 == <<>>
N_1 == <<"1">>
N_ff == <<"f","f">>
N_max32 == <<"f","f","f","f","f","f","f","f">>
N_2p32 == <<"1","0","0","0","0","0","0","0","0">>
NonceCounts == {N_0, N_1, N_ff, N_max32, N_2p32}

\* Texts offered to validate_nonce: timestamp:salt:signature with right and
\* wrong signatures, an empty salt, an empty timestamp, a timestamp with a
\* colon in it, and texts with fewer than two colons.
NonceTexts ==
    LET tss == {<<"1", ".", "5">>, <<>>, <<"1", ":", "2">>}
        salts == Salts \cup {<<>>, T_x}
        sigs(ts, salt) == {HexDigest("md5", Concat(<<ts, Colon, salt, Colon, sec>>)) : sec \in Secrets}
                          \cup {T_x, <<>>}
    IN UNION {UNION {{Concat(<<ts, Colon, salt, Colon, sig>>) : sig \in sigs(ts, salt)}
                     : salt \in salts} : ts \in tss}
       \cup {<<>>, T_x, T_ab}

\* Records as parse_digest_credentials returns them.
Credentials ==
    {Rec([username |-> T_u, realm |-> T_r, nonce |-> T_n, uri |-> T_slash,
          response |-> T_x, algorithm |-> a, opaque |-> T_o, qop |-> S_auth,
          nc |-> N_1, cnonce |-> T_c]) : a \in AVAILABLE_HASH_FUNCS}

\* Records as parse_digest_challenge returns them.
Challenges ==
    {Rec([realm |-> T_r, nonce |-> T_n, stale |-> FALSE, algorithm |-> a, opaque |-> T_o,
          qop |-> S_auth]) : a \in AVAILABLE_HASH_FUNCS}

\* name=value, or name="value" as written (nothing escaped)
Seg(name, value, quoted) ==
    name \o <<"=">> \o (IF quoted THEN <<Quote>> \o value \o <<Quote>> ELSE value)

RECURSIVE JoinSegs(_)
JoinSegs(segs) == IF segs = <<>> THEN <<>>
                  ELSE IF Len(segs) = 1 THEN segs[1]
                  ELSE segs[1] \o <<",", " ">> \o JoinSegs(Tail(segs))

Schemes == {S_Digest, <<"d","I","G","E","S","T"," ">>, <<"B","a","s","i","c"," ">>,
            <<"D","i","g">>}

\* the ways a header may write (or leave out) one parameter
NcSegs == {<<>>, <<Seg(K_nc, <<"0","0","0","0","0","0","0","1">>, FALSE)>>,
           <<Seg(K_nc, <<"1","F">>, FALSE)>>, <<Seg(K_nc, <<>>, TRUE)>>,
           <<Seg(K_nc, <<"z","z">>, FALSE)>>, <<Seg(K_nc, N_2p32, FALSE)>>}
QopSegs == {<<>>, <<Seg(K_qop, S_auth, TRUE)>>,
            <<Seg(K_qop, <<"a","u","t","h","-","i","n","t">>, FALSE)>>}
AlgorithmSegs == {<<>>} \cup {<<Seg(K_algorithm, a, FALSE)>> :
                                a \in {S_SHA256, S_SHA512_256, S_SHA1, <<"m","d","5">>}}
StaleSegs == {<<>>, <<Seg(K_stale, S_true, FALSE)>>, <<Seg(K_stale, <<"T","R","U","E">>, FALSE)>>,
              <<Seg(K_stale, T_x, FALSE)>>}
\* a last segment: none, one without "=", one whose quoted-string is not closed
LastSegs == {<<>>, <<T_x>>, <<Seg(T_x, <<Quote, "a">>, FALSE)>>}

\* Header values offered to parse_digest_credentials: every scheme, with the
\* seven text parameters always there but for opaque
CredentialHeaders ==
    {scheme \o JoinSegs(<<Seg(K_username, T_u, TRUE), Seg(K_realm, T_r, TRUE),
                          Seg(K_nonce, T_n, TRUE), Seg(K_uri, T_slash, TRUE),
                          Seg(K_response, T_x, TRUE), Seg(K_cnonce, T_c, TRUE)>>
                        \o opaque \o nc \o qop \o algorithm \o last) :
        scheme \in Schemes, opaque \in {<<>>, <<Seg(K_opaque, T_o, TRUE)>>},
        nc \in NcSegs, qop \in QopSegs, algorithm \in AlgorithmSegs, last \in LastSegs}

\* Header values offered to parse_digest_challenge
ChallengeHeaders ==
    {scheme \o JoinSegs(<<Seg(K_realm, T_r, TRUE), Seg(K_nonce, T_n, TRUE)>>
                        \o opaque \o stale \o qop \o algorithm \o last) :
        scheme \in Schemes, opaque \in {<<>>, <<Seg(K_opaque, T_o, TRUE)>>},
        stale \in StaleSegs, qop \in QopSegs, algorithm \in AlgorithmSegs, last \in LastSegs}

\* Raw header texts handed to build_authorization_request as digest_challenge
GoodChallengeHeader ==
    S_Digest \o JoinSegs(<<Seg(K_realm, T_r, TRUE), Seg(K_nonce, T_n, TRUE),
                           Seg(K_opaque, T_o, TRUE), Seg(K_qop, S_auth, TRUE)>>)
BadChallengeHeaders ==
    {<<"B","a","s","i","c"," ">>,
     S_Digest \o JoinSegs(<<Seg(K_realm, T_r, TRUE), Seg(K_nonce, T_n, TRUE),
                            Seg(K_opaque, T_o, TRUE), Seg(K_qop, S_auth, TRUE),
                            Seg(K_algorithm, S_SHA1, FALSE)>>)}

----------------------------------------------------------------------------
(* Calls *)

Call(o, a, r) ==
    /\ pc' = "done"
    /\ op' = o
    /\ args' = a
    /\ ret' = r
    /\ UNCHANGED <<algorithms_available, AVAILABLE_HASH_FUNCS>>

GetHashFunc ==
    /\ pc = "idle"
    /\ \E algorithm \in Algorithms :
        Call("get_hash_func", [algorithm |-> algorithm], Func(get_hash_func(algorithm)))

CalculateNonce ==
    /\ pc = "idle"
    /\ \E timestamp \in Timestamps, secret \in Secrets, salt \in {None, <<>>} \cup Salts :
       \E drawn \in Draws(Salts, ~Truthy(salt)) :
        Call("calculate_nonce", [timestamp |-> timestamp, secret |-> secret, salt |-> salt],
             Ok(calculate_nonce(timestamp, secret, salt, drawn)))

ValidateNonce ==
    /\ pc = "idle"
    /\ \E nonce \in NonceTexts, secret \in Secrets, drawn \in Salts :
        Call("validate_nonce", [nonce |-> nonce, secret |-> secret],
             Bool(validate_nonce(nonce, secret, drawn)))

CalculatePartialDigest ==
    /\ pc = "idle"
    /\ \E username \in {T_u, T_odd}, realm \in {T_r, <<>>}, password \in {T_p, T_odd},
       algorithm \in Algorithms :
        Call("calculate_partial_digest",
             [username |-> username, realm |-> realm, password |-> password,
              algorithm |-> algorithm],
             calculate_partial_digest(username, realm, password, algorithm))

CalculateRequestDigest ==
    /\ pc = "idle"
    /\ \E digest_response \in {NoneV} \cup Credentials, uri \in {None, <<>>, T_slash},
          nonce \in {None, T_n}, nonce_count \in {None} \cup NonceCounts,
          client_nonce \in {None, T_c}, algorithm \in {None, S_MD5, S_SHA512_256, S_SHA1} :
        Call("calculate_request_digest",
             [method |-> T_GET, partial_digest |-> T_p, digest_response |-> digest_response,
              uri |-> uri, nonce |-> nonce, nonce_count |-> nonce_count,
              client_nonce |-> client_nonce, algorithm |-> algorithm],
             calculate_request_digest(T_GET, T_p, digest_response, uri, nonce, nonce_count,
                                      client_nonce, algorithm))

BuildDigestChallenge ==
    /\ pc = "idle"
    /\ \E timestamp \in {Float(0), Float(MaxTimestamp)}, secret \in {T_s, T_ab},
          realm \in {T_r, T_odd, <<>>}, opaque \in {T_o, T_odd}, stale \in BOOLEAN,
          algorithm \in Algorithms \ {None}, drawn \in Salts :
        Call("build_digest_challenge",
             [timestamp |-> timestamp, secret |-> secret, realm |-> realm, opaque |-> opaque,
              stale |-> stale, algorithm |-> algorithm],
             Ok(build_digest_challenge(timestamp, secret, realm, opaque, stale, algorithm,
                                       drawn)))

BuildAuthorizationRequest ==
    /\ pc = "idle"
    /\ \E username \in {T_odd}, uri \in {T_odd, <<>>}, nonce_count \in {N_0, N_1, N_ff, N_2p32},
          digest_challenge \in {NoneV, Text(<<>>), Text(GoodChallengeHeader)}
                               \cup {Text(h) : h \in BadChallengeHeaders}
                               \cup {c \in Challenges : Val(c).algorithm = S_SHA256},
          fields \in {<<None, None, None>>, <<T_odd, T_odd, T_odd>>, <<T_r, None, <<>> >>},
          secrets \in {<<None, None>>, <<T_p, None>>, << <<>>, T_d>>, <<T_p, T_d>>},
          client_nonce \in {None, <<>>, T_odd},
          algorithm \in {None, S_MD5, S_SHA512_256, S_SHA1} :
       \E drawn \in Draws(RandomTokens(ClientNonceLen), ~Truthy(client_nonce)) :
        Call("build_authorization_request",
             [username |-> username, method |-> T_GET, uri |-> uri, nonce_count |-> nonce_count,
              digest_challenge |-> digest_challenge, realm |-> fields[1], nonce |-> fields[2],
              opaque |-> fields[3], password |-> secrets[1], request_digest |-> secrets[2],
              client_nonce |-> client_nonce, algorithm |-> algorithm],
             build_authorization_request(username, T_GET, uri, nonce_count, digest_challenge,
                                         fields[1], fields[2], fields[3], secrets[1],
                                         secrets[2], client_nonce, algorithm, drawn))

ParseDigestCredentials ==
    /\ pc = "idle"
    /\ \E authorization_header \in CredentialHeaders :
        Call("parse_digest_credentials", [authorization_header |-> authorization_header],
             parse_digest_credentials(authorization_header))

ParseDigestChallenge ==
    /\ pc = "idle"
    /\ \E authentication_header \in ChallengeHeaders :
        Call("parse_digest_challenge", [authentication_header |-> authentication_header],
             parse_digest_challenge(authentication_header))

Return ==
    /\ pc = "done"
    /\ pc' = "idle"
    /\ op' = "none"
    /\ args' = <<>>
    /\ ret' = NoneV
    /\ UNCHANGED <<algorithms_available, AVAILABLE_HASH_FUNCS>>

Init ==
    /\ algorithms_available \in BOOLEAN
    /\ AVAILABLE_HASH_FUNCS = AvailableHashFuncs(algorithms_available)
    /\ pc = "idle"
    /\ op = "none"
    /\ args = <<>>
    /\ ret = NoneV

Next ==
    \/ GetHashFunc
    \/ CalculateNonce
    \/ ValidateNonce
    \/ CalculatePartialDigest
    \/ CalculateRequestDigest
    \/ BuildDigestChallenge
    \/ BuildAuthorizationRequest
    \/ ParseDigestCredentials
    \/ ParseDigestChallenge
    \/ Return

Spec == Init /\ [][Next]_vars

----------------------------------------------------------------------------
(* Properties *)

\* The supported algorithms: MD5, SHA-256 and SHA-512, and SHA-512-256 where
\* the host's provider has it.
Supported ==
    {S_MD5, S_SHA256, S_SHA512} \cup (IF algorithms_available THEN {S_SHA512_256} ELSE {})

ParseOps == {"parse_digest_credentials", "parse_digest_challenge"}

\* the header value a parse call was made with
HeaderArg == IF op = "parse_digest_credentials" THEN args.authorization_header
             ELSE args.authentication_header

\* the parameters a header value writes, None when they do not parse
Written(header) == parse_parts(Suffix(header, SchemeLen), <<>>)

(* C1: a nonce calculate_nonce returns when no salt is supplied is accepted by
   validate_nonce under the same secret, whichever salt was drawn. *)
C1_GeneratedNonceValidates ==
    (op = "calculate_nonce" /\ args.salt = None) =>
        \A d \in Salts : validate_nonce(Val(ret), args.secret, d)

C1_Witness ==
    /\ op = "calculate_nonce" /\ args.salt = None
    /\ args.secret = T_ab /\ args.timestamp = Float(MaxTimestamp)
    /\ \A d \in Salts : validate_nonce(Val(ret), args.secret, d)

(* C2: a nonce generated under one secret is rejected by validate_nonce under
   every other secret. *)
C2_OtherSecretRejected ==
    (op = "calculate_nonce" /\ args.salt = None) =>
        \A secret2 \in Secrets \ {args.secret}, d \in Salts :
            ~validate_nonce(Val(ret), secret2, d)

C2_Witness ==
    /\ op = "calculate_nonce" /\ args.salt = None /\ args.secret = T_s
    /\ \A d \in Salts : ~validate_nonce(Val(ret), T_t, d)

\* the header writes the parameter key with a value outside allowed
NamesOther(parts, key, allowed) ==
    parts # None /\ key \in DOMAIN parts /\ parts[key] \notin allowed

(* C3: every record parse_digest_credentials or parse_digest_challenge returns
   has qop "auth" and a supported algorithm; a header that names another
   algorithm or another qop yields no record. *)
C3_RecordInvariant ==
    op \in ParseOps =>
        /\ Kind(ret) = "record" =>
              /\ Val(ret).qop = S_auth
              /\ Val(ret).algorithm \in Supported
        /\ (NamesOther(Written(HeaderArg), K_algorithm, Supported)
            \/ NamesOther(Written(HeaderArg), K_qop, {S_auth})) =>
              Kind(ret) = "none"

C3_Witness ==
    /\ op = "parse_digest_challenge"
    /\ Kind(ret) = "record"
    /\ Val(ret).algorithm = S_SHA512_256

\* the response of the credential cred is what calculate_request_digest gives for
\* the credential and the partial digest of the arguments a
C4_Recomputed(cred, a) ==
    /\ Kind(cred) = "record"
    /\ Ok(Val(cred).response) =
          calculate_request_digest(a.method,
              Val(calculate_partial_digest(a.username, a.realm, a.password,
                                           OrMD5(a.algorithm))),
              cred, None, None, None, None, None)

C4_Case ==
    /\ op = "build_authorization_request"
    /\ Kind(ret) = "ok"
    /\ Truthy(args.password)
    /\ ~IsGiven(args.digest_challenge)
    /\ OrMD5(args.algorithm) \in Supported

(* C4: the header build_authorization_request builds from a password, realm,
   nonce and opaque parses to a credential whose response equals the request
   digest recomputed from that credential and the partial digest. *)
C4_ClientServerAgree ==
    C4_Case => C4_Recomputed(parse_digest_credentials(Val(ret)), args)

C4_Witness ==
    /\ C4_Case
    /\ args.nonce_count = N_0 /\ args.client_nonce = None /\ args.algorithm = S_SHA512_256
    /\ C4_Recomputed(parse_digest_credentials(Val(ret)), args)

\* the header value does not start with "Digest " in any case of letters
WrongScheme(header) ==
    Len(header) < SchemeLen \/ Lower(SubSeq(header, 1, SchemeLen)) # S_DigestSP

\* the written parameters parts lack one of required, or carry a qop other than
\* auth or an unsupported algorithm
BadParts(parts, required) ==
    \/ parts = None
    \/ \E k \in required : k \notin DOMAIN parts
    \/ NamesOther(parts, K_qop, {S_auth})
    \/ NamesOther(parts, K_algorithm, Supported)

\* nc is empty or has a character that is no hex digit
BadNc(parts) ==
    /\ parts # None /\ K_nc \in DOMAIN parts
    /\ (parts[K_nc] = <<>> \/ \E i \in 1..Len(parts[K_nc]) :
                                 ~(\E j \in 1..16 : parts[K_nc][i] \in {HexLower[j], HexUpper[j]}))

MalformedCredentials(header) ==
    \/ WrongScheme(header)
    \/ BadParts(Written(header), {K_username, K_realm, K_nonce, K_uri, K_response, K_opaque,
                                  K_qop, K_nc, K_cnonce})
    \/ BadNc(Written(header))

MalformedChallenge(header) ==
    \/ WrongScheme(header)
    \/ BadParts(Written(header), {K_realm, K_nonce, K_opaque, K_qop})

\* parse_digest_credentials and parse_digest_challenge raise nothing and return
\* None for a malformed header
C5_ParsersReturnNone ==
    op \in ParseOps =>
        /\ Kind(ret) \in {"none", "record"}
        /\ (op = "parse_digest_credentials" /\ MalformedCredentials(HeaderArg)) =>
              Kind(ret) = "none"
        /\ (op = "parse_digest_challenge" /\ MalformedChallenge(HeaderArg)) =>
              Kind(ret) = "none"

\* build_authorization_request was given a malformed challenge header as text
C5_BuildCase ==
    /\ op = "build_authorization_request"
    /\ Kind(args.digest_challenge) = "str"
    /\ Truthy(Val(args.digest_challenge))
    /\ MalformedChallenge(Val(args.digest_challenge))

(* C5, as amended: for a malformed header, parse_digest_credentials and
   parse_digest_challenge return None and raise nothing;
   build_authorization_request, given such a header as its digest_challenge
   text, raises. *)
C5_MalformedIsAbsenceInParsers ==
    /\ C5_ParsersReturnNone
    /\ C5_BuildCase => Kind(ret) = "raise"

C5_Witness ==
    /\ C5_BuildCase
    /\ args.realm = None /\ args.nonce = None /\ args.opaque = None /\ args.algorithm = None
    /\ args.password = T_p /\ args.request_digest = None /\ args.uri = T_odd
    /\ Kind(ret) = "raise"

(* C5, as claimed: a malformed header makes the parsers return None, and no
   operation it reaches the parser through raises. *)
C5_Original ==
    /\ C5_ParsersReturnNone
    /\ C5_BuildCase => Kind(ret) # "raise"

(* C6, as claimed: calculate_request_digest raises whenever it is called with a
   credential and any of uri, nonce, nonce_count, client_nonce, algorithm
   that is not None. *)
C6_CredentialWithOverrideRaises ==
    (/\ op = "calculate_request_digest"
     /\ Kind(args.digest_response) = "record"
     /\ \/ args.uri # None
        \/ args.nonce # None
        \/ args.nonce_count # None
        \/ args.client_nonce # None
        \/ args.algorithm # None)
    => Kind(ret) = "raise"

(* C7, as claimed: for an algorithm name outside the supported set,
   get_hash_func gives MD5, and calculate_partial_digest and
   calculate_request_digest return what they return for MD5. *)
C7_UnsupportedFallsBackToMD5 ==
    /\ (op = "get_hash_func" /\ args.algorithm \notin Supported) => Val(ret) = "md5"
    /\ (op = "calculate_partial_digest" /\ args.algorithm \notin Supported) =>
          ret = calculate_partial_digest(args.username, args.realm, args.password, S_MD5)
    /\ (op = "calculate_request_digest" /\ Kind(args.digest_response) = "none"
        /\ args.algorithm \notin Supported) =>
          ret = calculate_request_digest(args.method, args.partial_digest, NoneV, args.uri,
                                         args.nonce, args.nonce_count, args.client_nonce, S_MD5)

\* the challenge ch carries the fields of the arguments a, and a nonce that
\* validates under a's secret
C8_Recovers(ch, a) ==
    /\ Kind(ch) = "record"
    /\ Val(ch).realm = a.realm
    /\ Val(ch).opaque = a.opaque
    /\ Val(ch).stale = a.stale
    /\ Val(ch).algorithm = a.algorithm
    /\ Val(ch).qop = S_auth
    /\ \A d \in Salts : validate_nonce(Val(ch).nonce, a.secret, d)

(* C8: parse_digest_challenge of what build_digest_challenge builds with a
   supported algorithm is a record with the realm, opaque, stale and algorithm
   given, qop "auth" and a nonce validate_nonce accepts under the secret. *)
C8_ChallengeRoundTrip ==
    (op = "build_digest_challenge" /\ args.algorithm \in Supported) =>
        C8_Recovers(parse_digest_challenge(Val(ret)), args)

C8_Witness ==
    /\ op = "build_digest_challenge"
    /\ args.realm = T_odd /\ args.opaque = T_odd /\ args.stale /\ args.secret = T_ab
    /\ args.algorithm = S_SHA512
    /\ C8_Recovers(parse_digest_challenge(Val(ret)), args)

\* the nonce count n (its hex digits, none for zero) written in at least
\* eight digits
Rendered(n) ==
    IF Len(n) > HexWidth THEN n
    ELSE [i \in 1..HexWidth |-> IF i <= HexWidth - Len(n) THEN "0" ELSE n[i - (HexWidth - Len(n))]]

\* text is n in exactly eight lowercase hex digits when n < 2^32, and in all
\* its digits, more than eight, otherwise
C9_RendersAs(text, n) ==
    /\ text = Rendered(n)
    /\ \A i \in 1..Len(text) : \E j \in 1..16 : text[i] = HexLower[j]
    /\ Len(n) <= HexWidth => Len(text) = HexWidth
    /\ Len(n) > HexWidth => Len(text) > HexWidth

\* the request digest over a data string that holds the text nc as nonce count
C9_DigestWith(hash_func, a, nc) ==
    HexDigest(hash_func,
        Concat(<<a.partial_digest, Colon, a.nonce, Colon, nc, Colon, a.client_nonce, Colon,
                 S_auth, Colon, HexDigest(hash_func, Concat(<<a.method, Colon, a.uri>>))>>))

C9_BuildCase == op = "build_authorization_request" /\ Kind(ret) = "ok"

C9_DigestCase ==
    /\ op = "calculate_request_digest" /\ Kind(ret) = "ok"
    /\ Kind(args.digest_response) = "none"

\* the name CallHash hashes under
C9_HashName(hash_func) == IF hash_func = "hash_wrapper" THEN "sha512_256" ELSE hash_func

(* C9, as amended: a nonce count below 2^32 is rendered as exactly 8 lowercase
   hex digits, zero-padded, in the nc parameter build_authorization_request
   writes and in the data calculate_request_digest hashes; a nonce count of
   2^32 or more is rendered in all its hex digits, which are more than 8. *)
C9_NonceCountRendering ==
    /\ C9_BuildCase => C9_RendersAs(Written(Val(ret))[K_nc], args.nonce_count)
    /\ C9_DigestCase =>
          /\ Val(ret) = C9_DigestWith(C9_HashName(get_hash_func(OrMD5(args.algorithm))), args,
                                      Rendered(args.nonce_count))
          /\ C9_RendersAs(Rendered(args.nonce_count), args.nonce_count)

C9_Witness ==
    /\ C9_BuildCase
    /\ args.nonce_count = N_ff
    /\ Written(Val(ret))[K_nc] = <<"0","0","0","0","0","0","f","f">>

(* C9, as claimed: the nonce count is always rendered in exactly 8
   characters. *)
C9_Original ==
    /\ C9_BuildCase => Len(Written(Val(ret))[K_nc]) = HexWidth
    /\ C9_DigestCase =>
          \E nc \in {Rendered(n) : n \in NonceCounts} :
              /\ Len(nc) = HexWidth
              /\ Val(ret) = C9_DigestWith(C9_HashName(get_hash_func(OrMD5(args.algorithm))),
                                          args, nc)

\* nonce is timestamp:salt:MD5hex(timestamp:salt:secret) for the three parts
\* it splits into on its first two colons
C10_IsRecomputed(parts, nonce, secret) ==
    /\ Len(parts) = 3
    /\ nonce = Concat(<<parts[1], Colon, parts[2], Colon,
                        HexDigest("md5", Concat(<<parts[1], Colon, parts[2], Colon, secret>>))>>)

(* C10, as claimed: validate_nonce(n, secret) is true exactly when n splits
   into three parts and equals the nonce recomputed from them, an empty salt
   part included. *)
C10_Original ==
    op = "validate_nonce" =>
        Val(ret) = C10_IsRecomputed(Split(args.nonce, ":", 2), args.nonce, args.secret)

====
